---- MODULE Spec2Model ----
(***************************************************************************)
(* A model of espnet2/text/phoneme_tokenizer.py: the construction of a     *)
(* PhonemeTokenizer (backend dispatch on g2p_type, loading of the          *)
(* non-linguistic symbol set), the symbol scan of text2tokens, the call of *)
(* the selected grapheme-to-phoneme backend, and tokens2text.              *)
(*                                                                         *)
(* A Python str is modelled as a sequence of one-character strings, a list *)
(* of tokens as a sequence of such sequences.  A Python set of symbols is  *)
(* modelled as a sequence without repetition: the order in which the set   *)
(* is iterated, which the interpreter fixes when the set is built (string  *)
(* hashing is randomised per process) and which the code cannot choose.    *)
(***************************************************************************)
EXTENDS Integers, Sequences, FiniteSets, TLC

\* ------------------------------------------------------------------ bounds
MaxTextLen == 4
MaxSymbols == 2
MaxPhones == 2
MaxTextLenTwo == 1
MaxPhonesTwo == 1

\* The two tokenizer instances (two worker contexts).
Workers == {1, 2}

\* ------------------------------------------------------- sequence helpers
Range(s) == {s[k] : k \in DOMAIN s}

SeqsUpTo(S, n) == UNION {[1..k -> S] : k \in 0..n}

\* Every order in which a set can be iterated.
Orders(S) == {o \in [1..Cardinality(S) -> S] : Range(o) = S}

\* An arbitrary listing of a set (used only where the order cannot matter).
Listing(S) == CHOOSE o \in [1..Cardinality(S) -> S] : Range(o) = S

\* ------------------------------------------------------- Python str methods
\* A prefix test that compares the first character only.
StartsWithFirstChar(s, p) == p = <<>> \/ (s # <<>> /\ s[1] = p[1])

\* s.startswith(p)
StartsWith(s, p) == Len(p) <= Len(s) /\ SubSeq(s, 1, Len(p)) = p

\* sub in s
Contains(s, sub) ==
    \E k \in 0..(Len(s) - Len(sub)) : SubSeq(s, k + 1, k + Len(sub)) = sub

Min(a, b) == IF a <= b THEN a ELSE b

\* s[:n] and s[n:], for n >= 0: a slice ends at the end of the string
Take(s, n) == SubSeq(s, 1, Min(n, Len(s)))
Drop(s, n) == SubSeq(s, Min(n, Len(s)) + 1, Len(s))

\* s.split(c) for a one-character separator c
RECURSIVE Split(_, _)
Split(s, c) ==
    IF \A k \in DOMAIN s : s[k] # c
    THEN <<s>>
    ELSE LET k == CHOOSE j \in DOMAIN s :
                      s[j] = c /\ \A m \in 1..(j - 1) : s[m] # c
         IN  <<SubSeq(s, 1, k - 1)>> \o Split(Drop(s, k), c)

Whitespace == {" ", "\n", "\t", "\r"}

\* s.rstrip()
RECURSIVE RStrip(_)
RStrip(s) ==
    IF s = <<>> \/ s[Len(s)] \notin Whitespace
    THEN s
    ELSE RStrip(SubSeq(s, 1, Len(s) - 1))

\* "".join(tokens)
RECURSIVE Join(_)
Join(toks) == IF toks = <<>> THEN <<>> ELSE Head(toks) \o Join(Tail(toks))

\* list(s): one token per character
Chars(s) == [k \in DOMAIN s |-> <<s[k]>>]

\* list(filter(pred, xs)) with pred = (lambda s: s != x)
RECURSIVE Without(_, _)
Without(xs, x) ==
    IF xs = <<>> THEN <<>>
    ELSE IF Head(xs) = x THEN Without(Tail(xs), x)
    ELSE <<Head(xs)>> \o Without(Tail(xs), x)

\* ------------------------------------------------------------ string values
S_g2p == <<"g", "2", "p">>
S_en == <<"e", "n">>
S_us == <<"u", "s">>
S_no == <<"n", "o">>
S_space == <<"s", "p", "a", "c", "e">>
S_espeak == <<"e", "s", "p", "e", "a", "k">>
S_arpabet == <<"a", "r", "p", "a", "b", "e", "t">>
S_pyopenjtalk == <<"p", "y", "o", "p", "e", "n", "j", "t", "a", "l", "k">>
S_kana == <<"k", "a", "n", "a">>
S_pypinyin == <<"p", "y", "p", "i", "n", "y", "i", "n">>
S_phone == <<"p", "h", "o", "n", "e">>
S_not_a_real_backend ==
    <<"n", "o", "t", "_", "a", "_", "r", "e", "a", "l", "_",
      "b", "a", "c", "k", "e", "n", "d">>
U == <<"_">>

K_g2p_en == S_g2p \o U \o S_en
K_g2p_en_no_space == S_g2p \o U \o S_en \o U \o S_no \o U \o S_space
K_pyopenjtalk == S_pyopenjtalk
K_pyopenjtalk_kana == S_pyopenjtalk \o U \o S_kana
K_pypinyin_g2p == S_pypinyin \o U \o S_g2p
K_pypinyin_g2p_phone == S_pypinyin \o U \o S_g2p \o U \o S_phone
K_espeak == S_espeak
K_espeak_arpabet == S_espeak \o U \o S_arpabet

\* 'fr-fr'
FrFr == <<"f", "r", "-", "f", "r">>

\* "<space>", the default of the space_symbol parameter
DefaultSpaceSymbol == <<"<">> \o S_space \o <<">">>

\* f"Not supported: g2p_type={g2p_type}"
NotSupportedPrefix ==
    <<"N", "o", "t", " ", "s", "u", "p", "p", "o", "r", "t", "e", "d", ":", " ">>
    \o S_g2p \o U \o <<"t", "y", "p", "e", "=">>

NotSupportedMessage(g) == NotSupportedPrefix \o g

\* ---------------------------------------------------------------- backends
\* A backend value: a G2p_en or espeak_g2p instance with its fields, or one
\* of the module-level functions (kind is its name).
Backend(kind, no_space, arpabet, lang) ==
    [kind |-> kind, no_space |-> no_space, arpabet |-> arpabet, lang |-> lang]

\* No backend: self.g2p of an object whose __init__ did not assign it.
NoBackend == Backend("none", FALSE, FALSE, <<>>)

\* The outcome of the dispatch when no branch matches: the raise of line 123.
NotImplementedError == Backend("NotImplementedError", FALSE, FALSE, <<>>)

G2p_en_init(no_space) == Backend("G2p_en", no_space, FALSE, <<>>)

espeak_g2p_init(lang, arpabet) == Backend("espeak_g2p", FALSE, arpabet, lang)

\* g2p_type.startswith('espeak_arpabet')
IsEspeakArpabet(g) == StartsWith(g, K_espeak_arpabet)

\* An exact comparison in place of the prefix test.
IsEspeakExact(g) == g = K_espeak

\* g2p_type.startswith('espeak')
IsEspeak(g) == StartsWith(g, K_espeak)

\* The language read from the field before the right one.
EspeakArpabetLangSecondField(g) ==
    IF Len(Split(g, "_")) > 2 THEN Split(g, "_")[2] ELSE FrFr

\* g2p_type.split('_')[2] if len(g2p_type.split('_')) > 2 else 'fr-fr'

EspeakArpabetLang(g) ==
    IF Len(Split(g, "_")) > 2 THEN Split(g, "_")[3] ELSE FrFr

\* g2p_type.split('_')[1] if '_' in g2p_type else 'fr-fr'
EspeakLang(g) == IF "_" \in Range(g) THEN Split(g, "_")[2] ELSE FrFr

\* The if/elif chain of PhonemeTokenizer.__init__ on g2p_type.
SelectBackend(g) ==
    IF g = K_g2p_en THEN G2p_en_init(FALSE)
    ELSE IF g = K_g2p_en_no_space THEN G2p_en_init(TRUE)
    ELSE IF g = K_pyopenjtalk THEN Backend("pyopenjtalk_g2p", FALSE, FALSE, <<>>)
    ELSE IF g = K_pyopenjtalk_kana
         THEN Backend("pyopenjtalk_g2p_kana", FALSE, FALSE, <<>>)
    ELSE IF g = K_pypinyin_g2p THEN Backend("pypinyin_g2p", FALSE, FALSE, <<>>)
    ELSE IF g = K_pypinyin_g2p_phone
         THEN Backend("pypinyin_g2p_phone", FALSE, FALSE, <<>>)
    ELSE IF IsEspeakArpabet(g) THEN espeak_g2p_init(EspeakArpabetLang(g), TRUE)
    ELSE IF IsEspeak(g) THEN espeak_g2p_init(EspeakLang(g), FALSE)
    ELSE NotImplementedError

\* The non_linguistic_symbols argument: None, a path (the lines of the file
\* it names, each with its line end) or an iterable of strings.
NlsNone == [kind |-> "None", items |-> <<>>]
NlsPath(lines) == [kind |-> "path", items |-> lines]
NlsIterable(items) == [kind |-> "iterable", items |-> items]

\* The set built by lines 127-134.
LoadSymbols(arg) ==
    IF arg.kind = "None" THEN {}
    ELSE IF arg.kind = "path" THEN {RStrip(l) : l \in Range(arg.items)}
    ELSE Range(arg.items)

\* ------------------------------------------------------------------- state
VARIABLES
    status,     \* per instance: "unbuilt", "ready", or "failed" (__init__ raised)
    requested,  \* the g2p_type argument __init__ was called with
    error,      \* the message of the exception __init__ raised, <<>> if none
    loaded,     \* whether __init__ reached the loading of the symbol set
    g2p_type,   \* self.g2p_type
    space_symbol,                   \* self.space_symbol
    non_linguistic_symbols,         \* self.non_linguistic_symbols, as iterated
    remove_non_linguistic_symbols,  \* self.remove_non_linguistic_symbols
    g2p,        \* self.g2p, the backend
    g2p_model,  \* self.g2p.g2p of a G2p_en: 0 for None, else the model object
    heap,       \* the number of g2p_en.G2p objects constructed so far
    built,      \* the number of them this instance's backend constructed
    pc,         \* "idle", or the place of the running text2tokens call
    text,       \* the argument of the running text2tokens call
    line,       \* its local variable line
    tokens,     \* its local variable tokens
    covered,    \* the positions of text consumed by a matched symbol
    runs,       \* the number of subprocess.run calls of the latest call
    returncode, \* proc.returncode of the latest call, -1 if no process ended
    ret         \* what the latest call returned or raised

config == <<g2p_type, space_symbol, non_linguistic_symbols,
            remove_non_linguistic_symbols, g2p>>

vars == <<status, requested, error, loaded, g2p_type, space_symbol,
          non_linguistic_symbols, remove_non_linguistic_symbols, g2p,
          g2p_model, heap, built, pc, text, line, tokens, covered, runs,
          returncode, ret>>

\* What a call handed back: the tokens text2tokens returned, the string
\* tokens2text returned (with its argument), or the exception raised.
Ret(kind, exc, toks, str, arg) ==
    [kind |-> kind, exc |-> exc, toks |-> toks, str |-> str, arg |-> arg]

NoRet == Ret("none", "", <<>>, <<>>, <<>>)
Returned(toks) == Ret("tokens", "", toks, <<>>, <<>>)
Raised(exc) == Ret("raise", exc, <<>>, <<>>, <<>>)

NoProcess == -1

Init ==
    /\ status = [i \in Workers |-> "unbuilt"]
    /\ requested = [i \in Workers |-> <<>>]
    /\ error = [i \in Workers |-> <<>>]
    /\ loaded = [i \in Workers |-> FALSE]
    /\ g2p_type = [i \in Workers |-> <<>>]
    /\ space_symbol = [i \in Workers |-> <<>>]
    /\ non_linguistic_symbols = [i \in Workers |-> <<>>]
    /\ remove_non_linguistic_symbols = [i \in Workers |-> FALSE]
    /\ g2p = [i \in Workers |-> NoBackend]
    /\ g2p_model = [i \in Workers |-> 0]
    /\ heap = 0
    /\ built = [i \in Workers |-> 0]
    /\ pc = [i \in Workers |-> "idle"]
    /\ text = [i \in Workers |-> <<>>]
    /\ line = [i \in Workers |-> <<>>]
    /\ tokens = [i \in Workers |-> <<>>]
    /\ covered = [i \in Workers |-> {}]
    /\ runs = [i \in Workers |-> 0]
    /\ returncode = [i \in Workers |-> NoProcess]
    /\ ret = [i \in Workers |-> NoRet]

\* ------------------------------------------------ PhonemeTokenizer.__init__
\* One construction: the dispatch on g2p_type, which raises before anything
\* is stored, then the assignments of lines 125-135.  The set is iterated in
\* an order the code does not choose.
PhonemeTokenizer_init(i, Keys, NlsArgs, SpaceSymbols) ==
    /\ status[i] = "unbuilt"
    /\ \E g \in Keys, arg \in NlsArgs, sp \in SpaceSymbols, rm \in BOOLEAN :
         \E order \in Orders(LoadSymbols(arg)) :
           /\ requested' = [requested EXCEPT ![i] = g]
           /\ IF SelectBackend(g) = NotImplementedError
              THEN /\ status' = [status EXCEPT ![i] = "failed"]
                   /\ error' = [error EXCEPT ![i] = NotSupportedMessage(g)]
                   /\ UNCHANGED <<loaded, config>>
              ELSE /\ status' = [status EXCEPT ![i] = "ready"]
                   /\ g2p' = [g2p EXCEPT ![i] = SelectBackend(g)]
                   /\ g2p_type' = [g2p_type EXCEPT ![i] = g]
                   /\ space_symbol' = [space_symbol EXCEPT ![i] = sp]
                   /\ loaded' = [loaded EXCEPT ![i] = TRUE]
                   /\ non_linguistic_symbols' =
                          [non_linguistic_symbols EXCEPT ![i] = order]
                   /\ remove_non_linguistic_symbols' =
                          [remove_non_linguistic_symbols EXCEPT ![i] = rm]
                   /\ UNCHANGED error
    /\ UNCHANGED <<g2p_model, heap, built, pc, text, line, tokens, covered, runs,
                   returncode, ret>>

\* ------------------------------------------------ PhonemeTokenizer.text2tokens
\* A scan that takes space_symbol for one more symbol.
ScanSymbolsWithSpaceSymbol(i) ==
    non_linguistic_symbols[i] \o <<space_symbol[i]>>

\* The symbols the for loop of line 149 goes over, in iteration order.

ScanSymbols(i) == non_linguistic_symbols[i]

\* The index of the first symbol of the iteration that line starts with, 0
\* when the for loop ends without a break.
FirstMatch(order, l) ==
    IF \E k \in DOMAIN order : StartsWith(l, order[k])
    THEN CHOOSE k \in DOMAIN order :
             /\ StartsWith(l, order[k])
             /\ \A m \in 1..(k - 1) : ~StartsWith(l, order[m])
    ELSE 0

\* A match emitted character by character.
EmitSplit(toks, l, w, rm) == IF ~rm THEN toks \o Chars(w) ELSE toks

\* A match emitted whatever the flag says.
EmitAlways(toks, l, w, rm) == Append(toks, Take(l, Len(w)))

\* Lines 151-152: tokens after a match of w at the head of line l.
Emit(toks, l, w, rm) == IF ~rm THEN Append(toks, Take(l, Len(w))) ELSE toks

\* A bound of the model on the length of tokens: a scan that stops advancing
\* appends to tokens for ever.
MaxTokens == MaxTextLen + 2

\* The position of the cursor in text: the characters consumed so far.
Cursor(i) == Len(text[i]) - Len(line[i])

\* Entry of text2tokens: line is the argument, tokens = [].
text2tokens(i, Texts) ==
    /\ status[i] = "ready"
    /\ pc[i] = "idle"
    /\ \E t \in Texts :
         /\ text' = [text EXCEPT ![i] = t]
         /\ line' = [line EXCEPT ![i] = t]
    /\ tokens' = [tokens EXCEPT ![i] = <<>>]
    /\ covered' = [covered EXCEPT ![i] = {}]
    /\ runs' = [runs EXCEPT ![i] = 0]
    /\ returncode' = [returncode EXCEPT ![i] = NoProcess]
    /\ ret' = [ret EXCEPT ![i] = NoRet]
    /\ pc' = [pc EXCEPT ![i] = "scan"]
    /\ UNCHANGED <<status, requested, error, loaded, config, g2p_model, heap,
                   built>>

\* One iteration of the while loop in which a symbol matches (lines 149-154).
ScanSymbol(i) ==
    /\ pc[i] = "scan"
    /\ line[i] # <<>>
    /\ FirstMatch(ScanSymbols(i), line[i]) # 0
    /\ Len(tokens[i]) < MaxTokens
    /\ LET w == ScanSymbols(i)[FirstMatch(ScanSymbols(i), line[i])]
       IN  /\ tokens' = [tokens EXCEPT ![i] =
                   Emit(tokens[i], line[i], w, remove_non_linguistic_symbols[i])]
           /\ line' = [line EXCEPT ![i] = Drop(line[i], Len(w))]
           /\ covered' = [covered EXCEPT ![i] =
                   covered[i] \cup ((Cursor(i) + 1)..(Cursor(i) + Len(w)))]
    /\ UNCHANGED <<status, requested, error, loaded, config, g2p_model, heap,
                   built, pc, text, runs, returncode, ret>>

\* One iteration in which no symbol matches (lines 155-158).
ScanChar(i) ==
    /\ pc[i] = "scan"
    /\ line[i] # <<>>
    /\ FirstMatch(ScanSymbols(i), line[i]) = 0
    /\ tokens' = [tokens EXCEPT ![i] = Append(tokens[i], <<line[i][1]>>)]
    /\ line' = [line EXCEPT ![i] = Drop(line[i], 1)]
    /\ UNCHANGED <<status, requested, error, loaded, config, g2p_model, heap,
                   built, pc, text, covered, runs, returncode, ret>>

\* The loop ends (len(line) == 0) and line 160 reassembles the tokens.
ScanExit(i) ==
    /\ pc[i] = "scan"
    /\ line[i] = <<>>
    /\ line' = [line EXCEPT ![i] = Join(tokens[i])]
    /\ pc' = [pc EXCEPT ![i] = "g2p"]
    /\ UNCHANGED <<status, requested, error, loaded, config, g2p_model, heap,
                   built, text, tokens, covered, runs, returncode, ret>>

\* ------------------------------------------------------------ backend calls
\* What the external libraries hand back is not decided by this code: a
\* list of tokens, or a string, out of a small set.
LibTokens(n) == SeqsUpTo({<<"P">>, <<" ">>}, n)
LibStrings(n) == SeqsUpTo({"P", " "}, n)
LibPinyinParts(n) ==
    SeqsUpTo({<<ini, fin>> : ini \in {<<>>, <<"P">>}, fin \in {<<>>, <<"a">>}},
             n)

\* The exit statuses of the espeak-ng process.
ExitStatuses == {0, 1}

\* What a backend call does: what text2tokens hands back, the number of
\* subprocess.run calls made and the exit status seen.
Outcome(r, n, rc) == [ret |-> r, runs |-> n, returncode |-> rc]

\* G2p_en.__call__ after the model is in place (lines 88-92).
G2p_en_call(b, n) ==
    {Outcome(Returned(IF b.no_space THEN Without(p, <<" ">>) ELSE p),
             0, NoProcess) : p \in LibTokens(n)}

\* pyopenjtalk_g2p: phones.split(" ")
pyopenjtalk_g2p(n) ==
    {Outcome(Returned(Split(p, " ")), 0, NoProcess) : p \in LibStrings(n)}

\* pyopenjtalk_g2p_kana: list(kanas)
pyopenjtalk_g2p_kana(n) ==
    {Outcome(Returned(Chars(p)), 0, NoProcess) : p \in LibStrings(n)}

\* pypinyin_g2p: phone[0] of every item
pypinyin_g2p(n) ==
    {Outcome(Returned(p), 0, NoProcess) : p \in LibTokens(n)}

\* pypinyin_g2p_phone: initials and finals of every item, empty ones dropped
pypinyin_g2p_phone(n) ==
    {Outcome(Returned(Without(Join(p), <<>>)), 0, NoProcess) :
         p \in LibPinyinParts(n)}

\* The output processed without a look at the exit status.
EspeakAfterRunIgnoringStatus(b, rc, n) ==
    IF b.arpabet
    THEN {Outcome(Returned(p), 1, rc) : p \in LibTokens(n)}
         \cup {Outcome(Raised("MapperError"), 1, rc)}
    ELSE {Outcome(Raised("TypeError"), 1, rc)}

\* espeak_g2p.__call__ once subprocess.run has returned with status rc
\* (lines 61-68).  The bare raise of line 62, with no exception being
\* handled, raises RuntimeError.  proc.stdout is bytes (the process is run
\* without text mode), so phones.replace(' ', '_') of line 68 raises
\* TypeError; what ARPABETMapper makes of it is the library's.
EspeakAfterRun(b, rc, n) ==
    IF rc # 0
    THEN {Outcome(Raised("RuntimeError"), 1, rc)}
    ELSE IF b.arpabet
    THEN {Outcome(Returned(p), 1, rc) : p \in LibTokens(n)}
         \cup {Outcome(Raised("MapperError"), 1, rc)}
    ELSE {Outcome(Raised("TypeError"), 1, rc)}

\* espeak_g2p.__call__ (lines 58-68).  subprocess.run is given a str as
\* input for pipes opened in binary mode: writing a non-empty str raises
\* TypeError inside run, before any exit status is seen; an empty input is
\* not written and the process runs to its exit status.
espeak_g2p_call(b, input, n) ==
    IF input # <<>>
    THEN {Outcome(Raised("TypeError"), 1, NoProcess)}
    ELSE UNION {EspeakAfterRun(b, rc, n) : rc \in ExitStatuses}

\* self.g2p(line), by the kind of backend selected.
BackendCall(b, input, n) ==
    CASE b.kind = "G2p_en" -> G2p_en_call(b, n)
      [] b.kind = "pyopenjtalk_g2p" -> pyopenjtalk_g2p(n)
      [] b.kind = "pyopenjtalk_g2p_kana" -> pyopenjtalk_g2p_kana(n)
      [] b.kind = "pypinyin_g2p" -> pypinyin_g2p(n)
      [] b.kind = "pypinyin_g2p_phone" -> pypinyin_g2p_phone(n)
      [] b.kind = "espeak_g2p" -> espeak_g2p_call(b, input, n)

\* One model object for the whole program.
SharedModel(h) == 1

\* The object g2p_en.G2p() returns when h models exist already: a new one.
FreshModel(h) == h + 1

\* Lines 161-162: the backend is called with the reassembled line and what it
\* returns or raises leaves text2tokens; a G2p_en builds its model first when
\* it has none (lines 85-86).
CallG2p(i, n) ==
    /\ pc[i] = "g2p"
    /\ IF g2p[i].kind = "G2p_en" /\ g2p_model[i] = 0
       THEN /\ g2p_model' = [g2p_model EXCEPT ![i] = FreshModel(heap)]
            /\ heap' = heap + 1
            /\ built' = [built EXCEPT ![i] = built[i] + 1]
       ELSE UNCHANGED <<g2p_model, heap, built>>
    /\ \E o \in BackendCall(g2p[i], line[i], n) :
         /\ ret' = [ret EXCEPT ![i] = o.ret]
         /\ runs' = [runs EXCEPT ![i] = o.runs]
         /\ returncode' = [returncode EXCEPT ![i] = o.returncode]
    /\ pc' = [pc EXCEPT ![i] = "idle"]
    /\ text' = [text EXCEPT ![i] = <<>>]
    /\ line' = [line EXCEPT ![i] = <<>>]
    /\ tokens' = [tokens EXCEPT ![i] = <<>>]
    /\ covered' = [covered EXCEPT ![i] = {}]
    /\ UNCHANGED <<status, requested, error, loaded, config>>

\* ------------------------------------------------ PhonemeTokenizer.tokens2text
tokens2text(i, TokenLists) ==
    /\ status[i] = "ready"
    /\ pc[i] = "idle"
    /\ \E toks \in TokenLists :
         ret' = [ret EXCEPT ![i] = Ret("text", "", <<>>, Join(toks), toks)]
    /\ runs' = [runs EXCEPT ![i] = 0]
    /\ returncode' = [returncode EXCEPT ![i] = NoProcess]
    /\ UNCHANGED <<status, requested, error, loaded, config, g2p_model, heap,
                   built, pc, text, line, tokens, covered>>

\* ------------------------------------------------------------------ inputs
Alphabet == {"<", "a", ">"}
Texts == SeqsUpTo(Alphabet, MaxTextLen)

\* The symbols a set is drawn from: the empty string (a blank line of a
\* symbol file), two symbols of which one is a prefix of the other, and a
\* one-character symbol.
SymbolUniverse == {<<>>, <<"<", "a">>, <<"<", "a", ">">>, <<">">>}

SubsetsUpTo(S, n) == {T \in SUBSET S : Cardinality(T) <= n}

\* The line ends of a symbol file, with and without trailing blanks.
LineEnds == {<<"\n">>, <<" ", "\n">>}

NlsArgsOver(Symbols, n) ==
    {NlsNone}
    \cup {NlsIterable(Listing(S)) : S \in SubsetsUpTo(Symbols, n)}
    \cup {NlsPath(Listing({w \o e : w \in S})) :
              S \in SubsetsUpTo(Symbols, n), e \in LineEnds}

KeysScan == {K_g2p_en, K_espeak_arpabet}

\* Keys for the dispatch: the exact keys, and stems with suffixes.
KeySuffixes ==
    {<<>>, U, U \o S_en, U \o S_en \o U \o S_us, <<"x">>, <<"x">> \o U \o S_en}

KeyStems ==
    {K_g2p_en, K_espeak, K_espeak_arpabet, <<"e", "s", "p", "e", "a">>}

KeysAll ==
    {K_g2p_en, K_g2p_en_no_space, K_pyopenjtalk, K_pyopenjtalk_kana,
     K_pypinyin_g2p, K_pypinyin_g2p_phone, S_not_a_real_backend, <<>>,
     S_espeak \o U \o <<"a", "r", "p", "a", "b", "e">>}
    \cup {stem \o suffix : stem \in KeyStems, suffix \in KeySuffixes}

MaxTextLenCfg == 1
AlphabetCfg == {"a"}
SymbolUniverseCfg == {<<"a">>}

KeysTwo == {K_g2p_en_no_space, K_espeak}
AlphabetTwo == {"a", "_"}
SymbolUniverseTwo == {<<"a">>}
SpaceSymbolsTwo == {DefaultSpaceSymbol, U}

\* ---------------------------------------------------------- specifications
Step(i, Keys, NlsArgs, SpaceSymbols, Txts, n) ==
    \/ PhonemeTokenizer_init(i, Keys, NlsArgs, SpaceSymbols)
    \/ text2tokens(i, Txts)
    \/ ScanSymbol(i)
    \/ ScanChar(i)
    \/ ScanExit(i)
    \/ CallG2p(i, n)
    \/ tokens2text(i, LibTokens(n))

\* One tokenizer; the scan over every text and symbol set of the bounds.
Next ==
    Step(1, KeysScan, NlsArgsOver(SymbolUniverse, MaxSymbols),
         {DefaultSpaceSymbol}, Texts, MaxPhones)

Spec == Init /\ [][Next]_vars

\* One tokenizer; the construction over every key.
NextCfg ==
    Step(1, KeysAll, NlsArgsOver(SymbolUniverseCfg, MaxSymbols),
         {DefaultSpaceSymbol}, SeqsUpTo(AlphabetCfg, MaxTextLenCfg), MaxPhones)

SpecCfg == Init /\ [][NextCfg]_vars

\* Two tokenizers, constructed and called independently.
NextTwo ==
    \E i \in Workers :
        Step(i, KeysTwo, NlsArgsOver(SymbolUniverseTwo, MaxSymbols),
             SpaceSymbolsTwo, SeqsUpTo(AlphabetTwo, MaxTextLenTwo),
             MaxPhonesTwo)

SpecTwo == Init /\ [][NextTwo]_vars

\* ------------------------------------------------------------------ claims
Symbols(i) == Range(non_linguistic_symbols[i])

Scanning(i) == pc[i] \in {"scan", "g2p"}

\* A step of instance i that stays inside the while loop and changes what
\* the loop works on.
LoopIteration(i) ==
    /\ pc[i] = "scan"
    /\ pc'[i] = "scan"
    /\ <<line[i], tokens[i]>>' # <<line[i], tokens[i]>>

\* The part of text the scan has consumed: all of it once the loop has ended.
Consumed(i) ==
    IF pc[i] = "g2p" THEN text[i] ELSE Take(text[i], Cursor(i))

\* The characters of t at the positions outside cov, in order.
RECURSIVE Uncovered(_, _)
Uncovered(t, cov) ==
    IF t = <<>> THEN <<>>
    ELSE Uncovered(Take(t, Len(t) - 1), cov)
         \o (IF Len(t) \in cov THEN <<>> ELSE <<t[Len(t)]>>)

\* The offset in the text of the k-th emitted token when nothing is dropped.
Offset(toks, k) == Len(Join(Take(toks, k - 1)))

\* C1: every iteration of the scan loop of text2tokens shortens the remaining
\* text by at least one character, for every symbol set a tokenizer can be
\* constructed with (a blank line of a symbol file included).
C1_EveryIterationAdvances ==
    [][\A i \in Workers :
           LoopIteration(i) => Len(line'[i]) < Len(line[i])]_vars

\* C2: when several configured symbols are prefixes of the remaining text,
\* the scan consumes the longest of them (so the result does not depend on
\* the order in which the set is iterated).  Stated for the symbol sets
\* without the empty string, whose iterations C1 is about.
C2_LongestMatchSelected ==
    [][\A i \in Workers :
           LET matching == {w \in Symbols(i) : StartsWith(line[i], w)}
           IN  (LoopIteration(i) /\ matching # {} /\ <<>> \notin Symbols(i)) =>
                   \A w \in matching :
                       Len(w) <= Len(line[i]) - Len(line'[i])]_vars

NoSymbolOccurs(i) == \A w \in Symbols(i) : ~Contains(text[i], w)

\* C3: for a text in which no configured symbol occurs, and either value of
\* remove_non_linguistic_symbols, the scan emits one token per character in
\* order and the string handed to the backend is the text itself.
C3_Passthrough ==
    \A i \in Workers :
        (Scanning(i) /\ NoSymbolOccurs(i)) =>
            /\ tokens[i] = Chars(Consumed(i))
            /\ pc[i] = "scan" => line[i] = Drop(text[i], Cursor(i))
            /\ pc[i] = "g2p" => line[i] = text[i]

C3_Witness ==
    \E i \in Workers :
        /\ pc[i] = "g2p"
        /\ remove_non_linguistic_symbols[i]
        /\ Symbols(i) # {}
        /\ NoSymbolOccurs(i)
        /\ Len(text[i]) >= 2
        /\ "<" \in Range(text[i])

\* C4: with remove_non_linguistic_symbols false, each matched symbol is one
\* token, every other character is a one-character token, and the tokens
\* concatenate to the text consumed; the string handed to the backend is
\* the input text.
C4_KeepSymbols ==
    \A i \in Workers :
        (Scanning(i) /\ ~remove_non_linguistic_symbols[i]) =>
            /\ Join(tokens[i]) = Consumed(i)
            /\ pc[i] = "scan" => line[i] = Drop(text[i], Cursor(i))
            /\ pc[i] = "g2p" => line[i] = text[i]
            /\ \A k \in DOMAIN tokens[i] :
                 LET off == Offset(tokens[i], k)
                     tok == tokens[i][k]
                 IN  \/ /\ tok \in Symbols(i)
                        /\ (off + 1)..(off + Len(tok)) \subseteq covered[i]
                     \/ /\ Len(tok) = 1
                        /\ off + 1 \notin covered[i]
                        /\ \A w \in Symbols(i) :
                               ~StartsWith(Drop(text[i], off), w)

C4_Witness ==
    \E i \in Workers :
        /\ pc[i] = "g2p"
        /\ ~remove_non_linguistic_symbols[i]
        /\ \E k \in DOMAIN tokens[i] : Len(tokens[i][k]) >= 2
        /\ covered[i] # {}
        /\ covered[i] # 1..Len(text[i])

\* C5: with remove_non_linguistic_symbols true, no matched symbol is emitted,
\* the cursor advances by the length of each matched symbol, and the
\* characters outside the matched spans are kept in order: the string handed
\* to the backend is the text with exactly the matched spans deleted.
C5_DropSymbols ==
    \A i \in Workers :
        (Scanning(i) /\ remove_non_linguistic_symbols[i]) =>
            /\ tokens[i] = Chars(Uncovered(Consumed(i), covered[i]))
            /\ covered[i] \subseteq 1..Len(Consumed(i))
            /\ pc[i] = "scan" =>
                   /\ line[i] = Drop(text[i], Cursor(i))
                   /\ Len(tokens[i]) + Cardinality(covered[i]) = Cursor(i)
            /\ pc[i] = "g2p" => line[i] = Uncovered(text[i], covered[i])
            /\ \A p \in covered[i] :
                 \E w \in Symbols(i), b \in 0..(p - 1) :
                     /\ p <= b + Len(w)
                     /\ StartsWith(Drop(text[i], b), w)
                     /\ (b + 1)..(b + Len(w)) \subseteq covered[i]

C5_Witness ==
    \E i \in Workers :
        /\ pc[i] = "g2p"
        /\ remove_non_linguistic_symbols[i]
        /\ covered[i] # {}
        /\ line[i] # <<>>
        /\ line[i] # text[i]
        /\ Len(line[i]) + Cardinality(covered[i]) = Len(text[i])

ExactKeys ==
    {K_g2p_en, K_g2p_en_no_space, K_pyopenjtalk, K_pyopenjtalk_kana,
     K_pypinyin_g2p, K_pypinyin_g2p_phone}

Supported(g) == g \in ExactKeys \/ Take(g, Len(K_espeak)) = K_espeak

\* C6: a g2p_type that is neither one of the six exact keys nor a string with
\* prefix espeak makes the construction fail with an error whose message
\* holds the value, before the symbol set is loaded and before any backend
\* is selected or called; every other g2p_type selects a backend.
C6_UnsupportedKeyFails ==
    \A i \in Workers :
        /\ status[i] = "failed" =>
               /\ ~Supported(requested[i])
               /\ Contains(error[i], requested[i])
               /\ error[i] # requested[i]
               /\ ~loaded[i]
               /\ g2p[i] = NoBackend
               /\ g2p_type[i] = <<>> /\ non_linguistic_symbols[i] = <<>>
               /\ pc[i] = "idle" /\ ret[i] = NoRet /\ runs[i] = 0
               /\ g2p_model[i] = 0
        /\ status[i] = "ready" =>
               /\ Supported(requested[i])
               /\ g2p_type[i] = requested[i]
               /\ loaded[i]
               /\ error[i] = <<>>
               /\ g2p[i].kind \in {"G2p_en", "pyopenjtalk_g2p",
                                   "pyopenjtalk_g2p_kana", "pypinyin_g2p",
                                   "pypinyin_g2p_phone", "espeak_g2p"}

C6_Witness ==
    \E i \in Workers :
        /\ status[i] = "failed"
        /\ requested[i] = S_not_a_real_backend
        /\ error[i] = NotSupportedPrefix \o S_not_a_real_backend

EspeakStem(g) ==
    IF Take(g, Len(K_espeak_arpabet)) = K_espeak_arpabet
    THEN K_espeak_arpabet
    ELSE K_espeak

\* What follows the first underscore after the stem (<<>> if there is none).
AfterUnderscore(s) ==
    IF "_" \in Range(s)
    THEN Drop(s, CHOOSE k \in DOMAIN s :
                     s[k] = "_" /\ \A m \in 1..(k - 1) : s[m] # "_")
    ELSE <<>>

KeySuffix(g) == Drop(g, Len(EspeakStem(g)))

\* s up to its first underscore.
UpToUnderscore(s) ==
    IF "_" \in Range(s)
    THEN Take(s, (CHOOSE k \in DOMAIN s :
                      s[k] = "_" /\ \A m \in 1..(k - 1) : s[m] # "_") - 1)
    ELSE s

EspeakSelected(i) ==
    status[i] = "ready" /\ Take(g2p_type[i], Len(K_espeak)) = K_espeak

\* C7, as claimed: a key with prefix espeak_arpabet selects the ARPABET mode,
\* any other key with prefix espeak the plain mode; the language is what
\* follows the underscore of the key's suffix, fr-fr when there is none.
C7_LangIsWholeSuffix ==
    \A i \in Workers :
        EspeakSelected(i) =>
            /\ g2p[i].kind = "espeak_g2p"
            /\ g2p[i].arpabet = (EspeakStem(g2p_type[i]) = K_espeak_arpabet)
            /\ g2p[i].lang =
                   IF "_" \in Range(KeySuffix(g2p_type[i]))
                   THEN AfterUnderscore(KeySuffix(g2p_type[i]))
                   ELSE FrFr

\* C7, as amended: the language is what follows the underscore of the key's
\* suffix up to the next underscore (all of it when it holds none), fr-fr
\* when the key has no suffix; the mode is as claimed.
C7_LangIsFirstField ==
    \A i \in Workers :
        EspeakSelected(i) =>
            /\ g2p[i].kind = "espeak_g2p"
            /\ g2p[i].arpabet = (EspeakStem(g2p_type[i]) = K_espeak_arpabet)
            /\ g2p[i].lang =
                   IF "_" \in Range(KeySuffix(g2p_type[i]))
                   THEN UpToUnderscore(AfterUnderscore(KeySuffix(g2p_type[i])))
                   ELSE FrFr

C7_Witness ==
    \E i \in Workers :
        /\ status[i] = "ready"
        /\ g2p_type[i] = K_espeak_arpabet \o U \o S_en \o U \o S_us
        /\ g2p[i].arpabet
        /\ g2p[i].lang = S_en

NeverCalled(i) == pc[i] = "idle" /\ ret[i] = NoRet

\* C8: a G2p_en backend has no model after construction; it builds one on
\* its first call and keeps it, so each instance builds at most one model,
\* and two tokenizers never hold the same model object.
C8_LazyModelPerInstance ==
    /\ \A i \in Workers :
         /\ built[i] <= 1
         /\ (g2p_model[i] # 0) = (built[i] = 1)
         /\ g2p_model[i] # 0 => g2p[i].kind = "G2p_en"
         /\ (status[i] # "ready" \/ NeverCalled(i)) => g2p_model[i] = 0
         /\ (ret[i].kind = "tokens" /\ g2p[i].kind = "G2p_en") =>
                g2p_model[i] # 0
    /\ \A i, j \in Workers :
         (i # j /\ g2p_model[i] # 0 /\ g2p_model[j] # 0) =>
             g2p_model[i] # g2p_model[j]
    /\ heap = built[1] + built[2]

C8_Witness ==
    /\ \A i \in Workers :
         /\ g2p[i].kind = "G2p_en" /\ g2p[i].no_space
         /\ g2p_model[i] # 0
    /\ g2p_model[1] # g2p_model[2]
    /\ pc[1] = "g2p"
    /\ ret[2].kind = "tokens"

\* C9: when the espeak-ng process exits with a non-zero status, the call
\* raises to its caller: the process was run once, no tokens are returned,
\* and the tokenizer is ready for the next call.
C9_NonZeroExitRaises ==
    \A i \in Workers :
        (returncode[i] # NoProcess /\ returncode[i] # 0) =>
            /\ g2p[i].kind = "espeak_g2p"
            /\ ret[i].kind = "raise"
            /\ ret[i].exc = "RuntimeError"
            /\ ret[i].toks = <<>>
            /\ runs[i] = 1
            /\ status[i] = "ready"
            /\ pc[i] = "idle"

C9_Witness ==
    \E i \in Workers :
        /\ returncode[i] = 1
        /\ ret[i].kind = "raise"
        /\ g2p[i].arpabet

Configuration(i) ==
    <<g2p_type[i], space_symbol[i], non_linguistic_symbols[i],
      remove_non_linguistic_symbols[i], g2p[i]>>

SameScanInputs(i, j) ==
    /\ pc[i] = "g2p" /\ pc[j] = "g2p"
    /\ text[i] = text[j]
    /\ non_linguistic_symbols[i] = non_linguistic_symbols[j]
    /\ remove_non_linguistic_symbols[i] = remove_non_linguistic_symbols[j]

C10_NoEffectOfSpaceSymbol ==
    \A i, j \in Workers :
        /\ SameScanInputs(i, j) =>
               tokens[i] = tokens[j] /\ line[i] = line[j]
        /\ (ret[i].kind = "text" /\ ret[j].kind = "text"
            /\ ret[i].arg = ret[j].arg) => ret[i].str = ret[j].str

C10_Frame ==
    \A i \in Workers :
        /\ status[i] = "ready" =>
               status'[i] = "ready" /\ Configuration(i)' = Configuration(i)
        /\ g2p_model'[i] # g2p_model[i] => g2p[i].kind = "G2p_en"

\* C10: after construction no call changes g2p_type, space_symbol,
\* remove_non_linguistic_symbols, the symbol set or the backend; a model is
\* built only inside a G2p_en; and two tokenizers that differ at most in
\* space_symbol scan a text to the same tokens and join tokens to the same
\* string.
C10_ConfigurationUnchanged ==
    [](C10_NoEffectOfSpaceSymbol) /\ [][C10_Frame]_vars

C10_Witness ==
    /\ SameScanInputs(1, 2)
    /\ space_symbol[1] # space_symbol[2]
    /\ remove_non_linguistic_symbols[1]
    /\ Contains(text[1], space_symbol[1])
    /\ g2p[1].kind # g2p[2].kind

====
